---- MODULE Spec2Model ----
(***************************************************************************)
(* A model of the hoi package: the BoundingBox geometry (hoi/structs/      *)
(* _box.py), the BoundingBoxFormat parser and the H2ODataset loader        *)
(* (hoi/datasets/_h2o.py).                                                 *)
(*                                                                         *)
(* Python floats are modelled as a binary floating-point format with       *)
(* Precision significant bits, round-to-nearest-even and gradual           *)
(* underflow.  A float is written as an integer count of the smallest      *)
(* positive (subnormal) float, so that the float 1.0 is One of them.  The  *)
(* format has no largest exponent: overflow, infinities and NaN are        *)
(* outside the model.                                                      *)
(*                                                                         *)
(* BoundingBox is a frozen dataclass: a method either returns the receiver *)
(* itself or constructs a new object.  Objects live in heap, a sequence    *)
(* whose indices are the object identities.                                *)
(***************************************************************************)
EXTENDS Integers, Sequences, FiniteSets, TLC

VARIABLES
    scenario,   \* which part of the package the client program exercises
    text,       \* the format string the client is about to parse
    heap,       \* the BoundingBox objects that exist, by identity
    disk,       \* the dataset folder read by H2ODataset
    dataset,    \* the H2ODataset object, once its construction returned
    window,     \* the MainWindow: its samples, widget stack and selection
    call,       \* the last call made by the client
    ret         \* what that call returned or raised

vars == <<scenario, text, heap, disk, dataset, window, call, ret>>

----------------------------------------------------------------------------
(* Bounds of the model *)

Precision == 5      \* significant bits of a float (53 in CPython)
FracBits == 8       \* the float 1.0 is 2^FracBits smallest subnormals
MaxBoxes == 3       \* BoundingBox objects alive at once
MaxPad == 1         \* whitespace characters on each side of a format string
MaxRecords == 2     \* sample records in one split manifest
MaxSamples == 7     \* samples handed to the MainWindow

----------------------------------------------------------------------------
(* Floating-point arithmetic *)

Abs(n) == IF n < 0 THEN -n ELSE n

Sign(n) == IF n < 0 THEN -1 ELSE 1

Max(a, b) == IF a < b THEN b ELSE a

RECURSIVE Pow2(_)
Pow2(k) == IF k = 0 THEN 1 ELSE 2 * Pow2(k - 1)

One == Pow2(FracBits)

\* Mantissas are the integers below 2^Precision.
Radix == Pow2(Precision)

\* The spacing of the floats in the binade holding a/d: the least power of
\* two q >= 1 with a/d < 2^Precision * q.  Floats there are the multiples
\* of q.
RECURSIVE Binade(_, _, _)
Binade(a, d, q) ==
    IF a < Radix * q * d THEN q ELSE Binade(a, d, 2 * q)

\* The float nearest to the rational n/d (d > 0), ties to the even mantissa.
RoundQ(n, d) ==
    LET a == Abs(n)
        q == Binade(a, d, 1)
        m == a \div (d * q)
        rem == a - m * d * q
        up == \/ 2 * rem > d * q
              \/ 2 * rem = d * q /\ m % 2 = 1
    IN  Sign(n) * (IF up THEN m + 1 ELSE m) * q

IsFloat(v) == RoundQ(v, 1) = v

FAdd(a, b) == RoundQ(a + b, 1)

FSub(a, b) == RoundQ(a - b, 1)

\* float * int and float / int: the int operand is small enough to convert
\* exactly, so the result is the rounded exact product or quotient.
FMul(a, n) == RoundQ(a * n, 1)

FDiv(a, n) == RoundQ(a, n)

----------------------------------------------------------------------------
(* BoundingBoxFormat and BoundingBox *)

Formats == {"XYXY", "XYWH", "CXCYWH"}

\* A call either returns a value or raises an exception.
Return(v) == [val |-> v]

Raise(e) == [exc |-> e]

IsExc(v) == DOMAIN v = {"exc"}

\* Strings are sequences of characters.  The alphabet of the model: the
\* letters of the format names in both cases, two other characters and two
\* whitespace characters.
LowerChars == <<"c", "x", "y", "w", "h", "b">>

UpperChars == <<"C", "X", "Y", "W", "H", "B">>

Whitespace == {" ", "\t"}

\* str.upper(), character by character.
UpperChar(ch) ==
    IF \E k \in 1..Len(LowerChars) : LowerChars[k] = ch
    THEN UpperChars[CHOOSE k \in 1..Len(LowerChars) : LowerChars[k] = ch]
    ELSE ch

upper(s) == [k \in 1..Len(s) |-> UpperChar(s[k])]

\* str.strip(): drop the leading and the trailing whitespace.
RECURSIVE lstrip(_)
lstrip(s) ==
    IF s # <<>> /\ Head(s) \in Whitespace THEN lstrip(Tail(s)) ELSE s

RECURSIVE rstrip(_)
rstrip(s) ==
    IF s # <<>> /\ s[Len(s)] \in Whitespace
    THEN rstrip(SubSeq(s, 1, Len(s) - 1))
    ELSE s

strip(s) == rstrip(lstrip(s))

\* The members of the enumeration: name -> value.
MemberName ==
    [XYXY |-> <<"X", "Y", "X", "Y">>,
     XYWH |-> <<"X", "Y", "W", "H">>,
     CXCYWH |-> <<"C", "X", "C", "Y", "W", "H">>]

MemberValue ==
    [XYXY |-> <<"x", "y", "x", "y">>,
     XYWH |-> <<"x", "y", "w", "h">>,
     CXCYWH |-> <<"c", "x", "c", "y", "w", "h">>]

\* cls[name]: the member of that name, or KeyError.
GetMember(name) ==
    IF \E m \in Formats : MemberName[m] = name
    THEN Return(CHOOSE m \in Formats : MemberName[m] = name)
    ELSE Raise("KeyError")

\* from_str without strip().
from_str_no_strip(s) == GetMember(upper(s))

from_str(s) == GetMember(strip(upper(s)))

\* The constructor without the length test of __post_init__.
BoundingBoxUnchecked(coordinates, format, normalized) ==
    [coordinates |-> coordinates, format |-> format, normalized |-> normalized]

\* The dataclass constructor followed by __post_init__.
BoundingBox(coordinates, format, normalized) ==
    IF Len(coordinates) # 4
    THEN Raise("ValueError")
    ELSE [coordinates |-> coordinates, format |-> format,
          normalized |-> normalized]

\* What a method hands back: the receiver itself, or a newly built object.
Self(b) == [self |-> TRUE, box |-> b]

New(b) == [self |-> FALSE, box |-> b]

\* normalize without its early return.
normalize_always(b, size) ==
    New(BoundingBox(<<FDiv(b.coordinates[1], size[1]),
                      FDiv(b.coordinates[2], size[2]),
                      FDiv(b.coordinates[3], size[1]),
                      FDiv(b.coordinates[4], size[2])>>,
                    b.format, TRUE))

normalize(b, size) ==
    IF b.normalized
    THEN Self(b)
    ELSE LET w == size[1]
             h == size[2]
         IN  New(BoundingBox(<<FDiv(b.coordinates[1], w),
                               FDiv(b.coordinates[2], h),
                               FDiv(b.coordinates[3], w),
                               FDiv(b.coordinates[4], h)>>,
                             b.format, TRUE))

\* denormalize with width and height taken in the wrong order.
denormalize_swapped(b, size) ==
    IF ~b.normalized
    THEN Self(b)
    ELSE New(BoundingBox(<<FMul(b.coordinates[1], size[2]),
                           FMul(b.coordinates[2], size[1]),
                           FMul(b.coordinates[3], size[2]),
                           FMul(b.coordinates[4], size[1])>>,
                         b.format, FALSE))

denormalize(b, size) ==
    IF ~b.normalized
    THEN Self(b)
    ELSE LET w == size[1]
             h == size[2]
         IN  New(BoundingBox(<<FMul(b.coordinates[1], w),
                               FMul(b.coordinates[2], h),
                               FMul(b.coordinates[3], w),
                               FMul(b.coordinates[4], h)>>,
                             b.format, FALSE))

\* to_xyxy adding the height to x and the width to y.
to_xyxy_swapped(b) ==
    CASE b.format = "XYXY" -> Self(b)
      [] b.format = "XYWH" ->
            New(BoundingBox(<<b.coordinates[1], b.coordinates[2],
                              FAdd(b.coordinates[1], b.coordinates[4]),
                              FAdd(b.coordinates[2], b.coordinates[3])>>,
                            "XYXY", b.normalized))
      [] b.format = "CXCYWH" ->
            New(BoundingBox(<<FSub(b.coordinates[1], FDiv(b.coordinates[4], 2)),
                              FSub(b.coordinates[2], FDiv(b.coordinates[3], 2)),
                              FAdd(b.coordinates[1], FDiv(b.coordinates[4], 2)),
                              FAdd(b.coordinates[2], FDiv(b.coordinates[3], 2))>>,
                            "XYXY", b.normalized))

to_xyxy(b) ==
    CASE b.format = "XYXY" -> Self(b)
      [] b.format = "XYWH" ->
            LET xmin == b.coordinates[1]
                ymin == b.coordinates[2]
                w == b.coordinates[3]
                h == b.coordinates[4]
            IN  New(BoundingBox(<<xmin, ymin, FAdd(xmin, w), FAdd(ymin, h)>>,
                                "XYXY", b.normalized))
      [] b.format = "CXCYWH" ->
            LET cx == b.coordinates[1]
                cy == b.coordinates[2]
                w == b.coordinates[3]
                h == b.coordinates[4]
            IN  New(BoundingBox(<<FSub(cx, FDiv(w, 2)), FSub(cy, FDiv(h, 2)),
                                  FAdd(cx, FDiv(w, 2)), FAdd(cy, FDiv(h, 2))>>,
                                "XYXY", b.normalized))

\* to_xywh keeping the far corner where the width and height belong.
to_xywh_keeps_corner(b) ==
    CASE b.format = "XYWH" -> Self(b)
      [] b.format = "XYXY" ->
            New(BoundingBox(b.coordinates, "XYWH", b.normalized))
      [] b.format = "CXCYWH" ->
            New(BoundingBox(<<FSub(b.coordinates[1], FDiv(b.coordinates[3], 2)),
                              FSub(b.coordinates[2], FDiv(b.coordinates[4], 2)),
                              b.coordinates[3], b.coordinates[4]>>,
                            "XYWH", b.normalized))

to_xywh(b) ==
    CASE b.format = "XYWH" -> Self(b)
      [] b.format = "XYXY" ->
            LET xmin == b.coordinates[1]
                ymin == b.coordinates[2]
                xmax == b.coordinates[3]
                ymax == b.coordinates[4]
            IN  New(BoundingBox(<<xmin, ymin, FSub(xmax, xmin), FSub(ymax, ymin)>>,
                                "XYWH", b.normalized))
      [] b.format = "CXCYWH" ->
            LET cx == b.coordinates[1]
                cy == b.coordinates[2]
                w == b.coordinates[3]
                h == b.coordinates[4]
            IN  New(BoundingBox(<<FSub(cx, FDiv(w, 2)), FSub(cy, FDiv(h, 2)), w, h>>,
                                "XYWH", b.normalized))

\* to_cxcywh building a box that is never flagged normalized.
to_cxcywh_drops_flag(b) ==
    CASE b.format = "CXCYWH" -> Self(b)
      [] b.format = "XYXY" ->
            New(BoundingBox(<<FDiv(FAdd(b.coordinates[1], b.coordinates[3]), 2),
                              FDiv(FAdd(b.coordinates[2], b.coordinates[4]), 2),
                              FSub(b.coordinates[3], b.coordinates[1]),
                              FSub(b.coordinates[4], b.coordinates[2])>>,
                            "CXCYWH", FALSE))
      [] b.format = "XYWH" ->
            New(BoundingBox(<<FAdd(b.coordinates[1], FDiv(b.coordinates[3], 2)),
                              FAdd(b.coordinates[2], FDiv(b.coordinates[4], 2)),
                              b.coordinates[3], b.coordinates[4]>>,
                            "CXCYWH", FALSE))

to_cxcywh(b) ==
    CASE b.format = "CXCYWH" -> Self(b)
      [] b.format = "XYXY" ->
            LET xmin == b.coordinates[1]
                ymin == b.coordinates[2]
                xmax == b.coordinates[3]
                ymax == b.coordinates[4]
            IN  New(BoundingBox(<<FDiv(FAdd(xmin, xmax), 2),
                                  FDiv(FAdd(ymin, ymax), 2),
                                  FSub(xmax, xmin), FSub(ymax, ymin)>>,
                                "CXCYWH", b.normalized))
      [] b.format = "XYWH" ->
            LET xmin == b.coordinates[1]
                ymin == b.coordinates[2]
                w == b.coordinates[3]
                h == b.coordinates[4]
            IN  New(BoundingBox(<<FAdd(xmin, FDiv(w, 2)), FAdd(ymin, FDiv(h, 2)),
                                  w, h>>,
                                "CXCYWH", b.normalized))

convert(b, format) ==
    CASE format = "XYXY" -> to_xyxy(b)
      [] format = "XYWH" -> to_xywh(b)
      [] format = "CXCYWH" -> to_cxcywh(b)

----------------------------------------------------------------------------
(* Sample, Entity, Action and the H2ODataset loader *)

\* Optional values: None, or the value.
None == <<>>

Some(v) == <<v>>

Sample(image_path, entities, actions, splits) ==
    [image_path |-> image_path, entities |-> entities,
     actions |-> actions, splits |-> splits]

Entity(bbox, category) == [bbox |-> bbox, category |-> category]

Action(verb, subject, target, instrument) ==
    [verb |-> verb, subject |-> subject, target |-> target,
     instrument |-> instrument]

\* A file of the dataset folder is missing, or holds text that is no JSON
\* (garbled), or holds a JSON value: a list, the empty object or a number.
\* A JSON object is a record of its members; JSON null is None.
Missing == [state |-> "missing"]

Garbled == [state |-> "garbled"]

Json(kind, value) == [state |-> "json", kind |-> kind, value |-> value]

\* with path.open("r") as f: json.load(f)
load_json(file) ==
    CASE file.state = "missing" -> Raise("FileNotFoundError")
      [] file.state = "garbled" -> Raise("JSONDecodeError")
      [] file.state = "json" -> Return(file)

\* obj[key] on a JSON object.
HasKey(obj, key) == key \in DOMAIN obj

\* "for x in data": the elements of a list, the keys of an object (the
\* empty object has none); a number is not iterable.
Iterate(data) ==
    CASE data.kind = "list" -> Return(data.value)
      [] data.kind = "object" -> Return(<<>>)
      [] data.kind = "number" -> Raise("TypeError")

\* A dict that keeps insertion order, as a sequence of <<key, value>>:
\* assigning to a key it holds replaces the value in place.
DictKeys(d) == {d[k][1] : k \in 1..Len(d)}

DictGet(d, key) == d[CHOOSE k \in 1..Len(d) : d[k][1] = key][2]

\* A dict whose first value for a key stays.
DictSetKeepFirst(d, key, value) ==
    IF key \in DictKeys(d) THEN d ELSE Append(d, <<key, value>>)

DictSet(d, key, value) ==
    IF key \in DictKeys(d)
    THEN [k \in 1..Len(d) |-> IF d[k][1] = key THEN <<key, value>> ELSE d[k]]
    ELSE Append(d, <<key, value>>)

Root == "datasets/h2o"

splits == <<"train", "test">>

_get_categories(folder) ==
    LET r == load_json(folder.categories)
    IN  IF IsExc(r) THEN r ELSE Return(r.val.value)

_get_verbs(folder) ==
    LET r == load_json(folder.verbs)
    IN  IF IsExc(r) THEN r ELSE Return(r.val.value)

\* The loop over sample_data["entities"].
RECURSIVE BuildEntities(_, _)
BuildEntities(items, entities) ==
    IF items = <<>>
    THEN Return(entities)
    ELSE LET entity_data == Head(items)
         IN  IF ~HasKey(entity_data, "bbox")
             THEN Raise("KeyError")
             ELSE LET bbox == BoundingBox(entity_data.bbox, "XYXY", TRUE)
                  IN  IF IsExc(bbox)
                      THEN bbox
                      ELSE IF ~HasKey(entity_data, "category")
                           THEN Raise("KeyError")
                           ELSE BuildEntities(Tail(items),
                                    Append(entities,
                                           Entity(bbox, entity_data.category)))

\* The loop over sample_data["actions"].
RECURSIVE BuildActions(_, _)
BuildActions(items, actions) ==
    IF items = <<>>
    THEN Return(actions)
    ELSE LET action_data == Head(items)
         IN  IF \E key \in {"verb", "subject", "target", "instrument"} :
                    ~HasKey(action_data, key)
             THEN Raise("KeyError")
             ELSE BuildActions(Tail(items),
                      Append(actions,
                             Action(action_data.verb, action_data.subject,
                                    action_data.target, action_data.instrument)))

\* One pass of the loop over the records of a manifest.
BuildSample(sample_data, split) ==
    IF ~HasKey(sample_data, "id")
    THEN Raise("KeyError")
    ELSE LET id == sample_data.id
             image == <<Root, "images", split, id \o ".jpg">>
         IN  IF ~HasKey(sample_data, "entities")
             THEN Raise("KeyError")
             ELSE LET entities == BuildEntities(sample_data.entities, <<>>)
                  IN  IF IsExc(entities)
                      THEN entities
                      ELSE IF ~HasKey(sample_data, "actions")
                           THEN Raise("KeyError")
                           ELSE LET actions == BuildActions(sample_data.actions, <<>>)
                                IN  IF IsExc(actions)
                                    THEN actions
                                    ELSE Return(<<id, Sample(image, entities.val,
                                                             actions.val, <<split>>)>>)

RECURSIVE BuildSamples(_, _, _)
BuildSamples(data, split, samples) ==
    IF data = <<>>
    THEN Return(samples)
    ELSE LET r == BuildSample(Head(data), split)
         IN  IF IsExc(r)
             THEN r
             ELSE BuildSamples(Tail(data), split, Append(samples, r.val))

_get_samples(folder, split) ==
    LET r == load_json(folder[split])
    IN  IF IsExc(r)
        THEN r
        ELSE LET data == Iterate(r.val)
             IN  IF IsExc(data) THEN data ELSE BuildSamples(data.val, split, <<>>)

\* The dict comprehension of __init__: the splits in order, each split's
\* list read whole and then its pairs assigned one after the other.
RECURSIVE InsertAll(_, _)
InsertAll(d, pairs) ==
    IF pairs = <<>>
    THEN d
    ELSE InsertAll(DictSet(d, Head(pairs)[1], Head(pairs)[2]), Tail(pairs))

RECURSIVE CollectSamples(_, _, _)
CollectSamples(folder, todo, d) ==
    IF todo = <<>>
    THEN Return(d)
    ELSE LET r == _get_samples(folder, Head(todo))
         IN  IF IsExc(r)
             THEN r
             ELSE CollectSamples(folder, Tail(todo), InsertAll(d, r.val))

\* H2ODataset.__init__: the object, or the exception that leaves none.
H2ODataset(folder) ==
    LET categories == _get_categories(folder)
    IN  IF IsExc(categories)
        THEN categories
        ELSE LET verbs == _get_verbs(folder)
             IN  IF IsExc(verbs)
                 THEN verbs
                 ELSE LET samples == CollectSamples(folder, splits, <<>>)
                      IN  IF IsExc(samples)
                          THEN samples
                          ELSE Return([_path |-> Root,
                                       _categories |-> categories.val,
                                       _verbs |-> verbs.val,
                                       _samples |-> samples.val])

__len__(ds) == Return(Len(ds._samples))

__iter__(ds) == Return(ds._samples)

\* __getitem__ by dict.get: None for a key the dict lacks.
getitem_or_none(ds, id) ==
    IF id \in DictKeys(ds._samples)
    THEN Return(DictGet(ds._samples, id))
    ELSE Return(None)

__getitem__(ds, id) ==
    IF id \in DictKeys(ds._samples)
    THEN Return(DictGet(ds._samples, id))
    ELSE Raise("KeyError")

----------------------------------------------------------------------------
(* Inputs of the geometry scenario *)

\* Coordinates in pixels, as multiples of the float 1.0.
Px(n) == n * One

\* The boxes the client builds first, <<coordinates, format, normalized>>:
\* the spec's worked examples in pixels; pixel boxes whose conversions round,
\* as those of XYWH (0.1, 0, 0.2, 0) do in CPython (8.5 + 0.25 has one bit
\* too many for Precision 5); boxes of normalized coordinates; a box of
\* pixels flagged as normalized; and a box whose width and height are
\* subnormal, where halving underflows.
RawBoxes ==
    { <<<<Px(10), Px(20), Px(30), Px(40)>>, "XYWH", FALSE>>,
      <<<<Px(25), Px(40), Px(30), Px(40)>>, "CXCYWH", FALSE>>,
      <<<<Px(10), Px(20), Px(40), Px(60)>>, "XYXY", FALSE>>,
      <<<<17 * (One \div 2), Px(4), One \div 4, Px(2)>>, "XYWH", FALSE>>,
      <<<<17 * (One \div 2), Px(4), One \div 4, Px(2)>>, "CXCYWH", FALSE>>,
      <<<<One \div 4, Px(2), 17 * (One \div 2), Px(4)>>, "XYXY", FALSE>>,
      <<<<One \div 8, One \div 4, One \div 2, One>>, "XYXY", TRUE>>,
      <<<<One \div 8, One \div 4, One \div 2, One \div 2>>, "XYWH", TRUE>>,
      <<<<One \div 2, One \div 2, One \div 4, One \div 2>>, "CXCYWH", TRUE>>,
      <<<<Px(10), Px(20), Px(30), Px(40)>>, "XYWH", TRUE>>,
      <<<<One \div 4, One \div 4, One, One>>, "CXCYWH", TRUE>>,
      <<<<Px(50), -7, 1, 3>>, "CXCYWH", FALSE>> }

InitBoxes == {b \in RawBoxes : \A i \in 1..4 : IsFloat(b[1][i])}

\* Image sizes (width, height).
Sizes == {<<3, 5>>, <<8, 4>>}

\* Arguments of the constructor calls made after the first one.
LaterCoords == {<<0, 0, One>>, <<0, 0, One, One>>, <<0, 0, One, One, 0>>}

NoDisk == [missing |-> TRUE]

NoDataset == [none |-> TRUE]

NoWindow == [none |-> TRUE]

InitGeometry ==
    \E b \in InitBoxes :
        /\ scenario = "geometry"
        /\ text = <<>>
        /\ heap = <<BoundingBox(b[1], b[2], b[3])>>
        /\ disk = NoDisk
        /\ dataset = NoDataset
        /\ window = NoWindow
        /\ call = [op |-> "BoundingBox", self |-> 0, arg |-> b]
        /\ ret = Return(1)

----------------------------------------------------------------------------
(* The client's calls on bounding boxes *)

\* The client holds the first box and the object its last call returned,
\* and calls methods on either.
Receivers ==
    IF scenario # "geometry"
    THEN {}
    ELSE {1} \cup (IF IsExc(ret) THEN {} ELSE {ret.val})

\* The effect of a call whose outcome is r: an exception, the receiver i
\* itself, or a new object, which gets the next identity.
Outcome(i, r) ==
    IF IsExc(r.box)
    THEN heap' = heap /\ ret' = r.box
    ELSE IF r.self
         THEN heap' = heap /\ ret' = Return(i)
         ELSE heap' = Append(heap, r.box) /\ ret' = Return(Len(heap) + 1)

Invoke(i, op, arg, r) ==
    /\ scenario = "geometry"
    /\ r.self \/ Len(heap) < MaxBoxes
    /\ Outcome(i, r)
    /\ call' = [op |-> op, self |-> i, arg |-> arg]
    /\ UNCHANGED <<scenario, window, text, disk, dataset>>

Construct ==
    \E c \in LaterCoords, n \in {TRUE} :
        Invoke(0, "BoundingBox", <<c, "XYXY", n>>, New(BoundingBox(c, "XYXY", n)))

Normalize ==
    \E i \in Receivers, size \in Sizes :
        Invoke(i, "normalize", size, normalize(heap[i], size))

Denormalize ==
    \E i \in Receivers, size \in Sizes :
        Invoke(i, "denormalize", size, denormalize(heap[i], size))

ToXYXY ==
    \E i \in Receivers : Invoke(i, "to_xyxy", <<>>, to_xyxy(heap[i]))

ToXYWH ==
    \E i \in Receivers : Invoke(i, "to_xywh", <<>>, to_xywh(heap[i]))

ToCXCYWH ==
    \E i \in Receivers : Invoke(i, "to_cxcywh", <<>>, to_cxcywh(heap[i]))

Convert ==
    \E i \in Receivers, f \in Formats :
        Invoke(i, "convert", f, convert(heap[i], f))

----------------------------------------------------------------------------
(* The parser scenario: the client parses format strings *)

\* s with the characters at the positions in up upper-cased.
Casing(s, up) == [k \in 1..Len(s) |-> IF k \in up THEN UpperChar(s[k]) ELSE s[k]]

RECURSIVE SeqsUpTo(_, _)
SeqsUpTo(S, n) ==
    IF n = 0
    THEN {<<>>}
    ELSE LET shorter == SeqsUpTo(S, n - 1)
         IN  shorter \cup {<<x>> \o t : x \in S, t \in {u \in shorter : Len(u) = n - 1}}

Pads == SeqsUpTo(Whitespace, MaxPad)

\* Strings that are no format name in any casing.
BogusStrings ==
    { <<>>,
      <<"b", "o", "g", "u", "s">>,
      <<"x", "y", "x">>,
      <<"x", "y", "x", "y", "x">>,
      <<"x", "y", " ", "x", "y">>,
      <<"y", "x", "y", "x">>,
      <<"x", "y", "h", "w">>,
      <<"c", "x", "y", "w", "h">>,
      <<"X", "Y", "\t", "W", "H">> }

FormatStrings ==
    {l \o c \o r :
        l \in Pads, r \in Pads,
        c \in BogusStrings \cup
              UNION {{Casing(MemberValue[m], up) : up \in SUBSET (1..Len(MemberValue[m]))}
                     : m \in Formats}}

NoCall == [op |-> "none", self |-> 0, arg |-> <<>>]

InitParser ==
    /\ scenario = "parser"
    /\ text \in FormatStrings
    /\ heap = <<>>
    /\ disk = NoDisk
    /\ dataset = NoDataset
    /\ window = NoWindow
    /\ call = NoCall
    /\ ret = Return(0)

FromStr ==
    /\ scenario = "parser"
    /\ call' = [op |-> "from_str", self |-> 0, arg |-> text]
    /\ ret' = from_str(text)
    /\ UNCHANGED <<scenario, window, text, heap, disk, dataset>>

----------------------------------------------------------------------------
(* The loader scenario: the client loads a dataset folder and reads it *)

Ids == {"0001", "0002"}

LookupIds == Ids \cup {"0003"}

\* A well-formed record, the k-th of its manifest.  The records of the two
\* splits differ, and so do the records of one manifest, so that it shows
\* which one an entry of the dataset was built from.
GoodRecord(id, split, k) ==
    IF split = "train"
    THEN [id |-> id,
          entities |-> <<[bbox |-> <<0, 0, One \div 2, One>>, category |-> "person"]>>,
          actions |-> <<[verb |-> IF k = 1 THEN "kick" ELSE "hold", subject |-> 0,
                         target |-> None, instrument |-> None]>>]
    ELSE [id |-> id,
          entities |-> <<[bbox |-> <<0, 0, One \div 2, One>>, category |-> "person"],
                         [bbox |-> <<One \div 4, One \div 2, One, One>>, category |-> "ball"]>>,
          actions |-> <<[verb |-> IF k = 1 THEN "kick" ELSE "hold", subject |-> 0,
                         target |-> Some(1), instrument |-> None]>>]

Drop(obj, key) == [k \in (DOMAIN obj) \ {key} |-> obj[k]]

\* seq with its last element replaced by x.
WithLast(seq, x) == [k \in 1..Len(seq) |-> IF k = Len(seq) THEN x ELSE seq[k]]

RecordDefects ==
    {"id", "entities", "actions", "bbox", "category", "verb", "subject",
     "target", "instrument", "bbox3", "bbox5"}

\* Records with every member, whose last action names an entity the record
\* lacks ("range") or names its subject again as its target ("roles").
IndexDefects == {"range", "roles"}

\* A record with every member whose last entity has a bbox of 4 numbers
\* that reach beyond 1.
BoxDefects == {"wide"}

\* The record with one defect: a member missing from the record, from its
\* last entity or from its last action, a bbox of 3 or of 5 numbers, or an
\* index defect.
Defective(rec, kind) ==
    LET e == rec.entities[Len(rec.entities)]
        a == rec.actions[Len(rec.actions)]
    IN  CASE kind \in {"id", "entities", "actions"} -> Drop(rec, kind)
          [] kind \in {"bbox", "category"} ->
                [rec EXCEPT !.entities = WithLast(@, Drop(e, kind))]
          [] kind \in {"verb", "subject", "target", "instrument"} ->
                [rec EXCEPT !.actions = WithLast(@, Drop(a, kind))]
          [] kind = "bbox3" ->
                [rec EXCEPT !.entities = WithLast(@, [e EXCEPT !.bbox = SubSeq(@, 1, 3)])]
          [] kind = "bbox5" ->
                [rec EXCEPT !.entities = WithLast(@, [e EXCEPT !.bbox = Append(@, 0)])]
          [] kind = "wide" ->
                [rec EXCEPT !.entities =
                    WithLast(@, [e EXCEPT !.bbox = <<0, 0, 2 * One, 2 * One>>])]
          [] kind = "range" ->
                [rec EXCEPT !.actions =
                    WithLast(@, [a EXCEPT !.subject = Len(rec.entities)])]
          [] kind = "roles" ->
                [rec EXCEPT !.actions =
                    WithLast(@, [a EXCEPT !.target = Some(a.subject)])]

FileNames == {"categories", "verbs", "train", "test"}

NoDefect == [file |-> "none", index |-> 0, kind |-> "none"]

\* The places where the folder can be defective: a whole file, or the
\* k-th record of a manifest.
Defects(trainIds, testIds) ==
    {NoDefect}
    \cup {[file |-> n, index |-> 0, kind |-> d] :
              n \in FileNames, d \in {"missing", "garbled", "object", "number"}}
    \cup {[file |-> "train", index |-> k, kind |-> d] : k \in 1..Len(trainIds), d \in RecordDefects \cup IndexDefects \cup BoxDefects}
    \cup {[file |-> "test", index |-> k, kind |-> d] : k \in 1..Len(testIds), d \in RecordDefects \cup IndexDefects \cup BoxDefects}

Manifest(ids, split, defect) ==
    Json("list",
         [k \in 1..Len(ids) |->
            IF defect.file = split /\ defect.index = k
            THEN Defective(GoodRecord(ids[k], split, k), defect.kind)
            ELSE GoodRecord(ids[k], split, k)])

File(name, good, defect) ==
    IF defect.file = name /\ defect.index = 0
    THEN CASE defect.kind = "missing" -> Missing
           [] defect.kind = "garbled" -> Garbled
           [] defect.kind = "object" -> Json("object", <<>>)
           [] defect.kind = "number" -> Json("number", 42)
    ELSE good

Folder(trainIds, testIds, defect) ==
    [categories |-> File("categories", Json("list", <<"person", "ball">>), defect),
     verbs |-> File("verbs", Json("list", <<"kick", "hold">>), defect),
     train |-> File("train", Manifest(trainIds, "train", defect), defect),
     test |-> File("test", Manifest(testIds, "test", defect), defect)]

InitLoader ==
    \E trainIds \in SeqsUpTo(Ids, MaxRecords), testIds \in SeqsUpTo(Ids, MaxRecords) :
        \E defect \in Defects(trainIds, testIds) :
            /\ scenario = "loader"
            /\ text = <<>>
            /\ heap = <<>>
            /\ disk = Folder(trainIds, testIds, defect)
            /\ dataset = NoDataset
            /\ window = NoWindow
            /\ call = NoCall
            /\ ret = Return(0)

Load ==
    /\ scenario = "loader"
    /\ dataset = NoDataset
    /\ LET r == H2ODataset(disk)
       IN  /\ ret' = r
           /\ dataset' = IF IsExc(r) THEN NoDataset ELSE r.val
    /\ call' = [op |-> "H2ODataset", self |-> 0, arg |-> Root]
    /\ UNCHANGED <<scenario, window, text, heap, disk>>

Loaded == scenario = "loader" /\ dataset # NoDataset

Len_ ==
    /\ Loaded
    /\ call' = [op |-> "__len__", self |-> 0, arg |-> <<>>]
    /\ ret' = __len__(dataset)
    /\ UNCHANGED <<scenario, window, text, heap, disk, dataset>>

Iter ==
    /\ Loaded
    /\ call' = [op |-> "__iter__", self |-> 0, arg |-> <<>>]
    /\ ret' = __iter__(dataset)
    /\ UNCHANGED <<scenario, window, text, heap, disk, dataset>>

GetItem ==
    \E id \in LookupIds :
        /\ Loaded
        /\ call' = [op |-> "__getitem__", self |-> 0, arg |-> id]
        /\ ret' = __getitem__(dataset, id)
        /\ UNCHANGED <<scenario, window, text, heap, disk, dataset>>

----------------------------------------------------------------------------
(* The viewer widgets *)

Digits == <<"0", "1", "2", "3", "4", "5", "6", "7", "8", "9">>

\* str(n) of an int n >= 0, as the sequence of its characters.
RECURSIVE str(_)
str(n) ==
    IF n < 10
    THEN <<Digits[n + 1]>>
    ELSE str(n \div 10) \o <<Digits[(n % 10) + 1]>>

\* The truth value of an "int | None": None and 0 are false.
Truthy(v) == v # None /\ v[1] # 0

\* The size of the image QImage reads for a sample.
ImageSize == <<8, 4>>

\* HOIScene._add_entities: the rectangle drawn for each entity.
_add_entities(entities) ==
    [idx \in 1..Len(entities) |->
        to_xywh(denormalize(entities[idx].bbox, ImageSize).box).box.coordinates]

HOIScene(sample) == [rects |-> _add_entities(sample.entities)]

\* The rows of the entity table: Index, Category.
_create_entity_table(entities) ==
    [idx \in 1..Len(entities) |-> <<str(idx - 1), entities[idx].category>>]

\* The rows of the action table: Subject, Verb, Target, Instrument.
_create_action_table(actions) ==
    [idx \in 1..Len(actions) |->
        <<str(actions[idx].subject),
          actions[idx].verb,
          IF Truthy(actions[idx].target) THEN str(actions[idx].target[1]) ELSE <<>>,
          IF Truthy(actions[idx].instrument)
          THEN str(actions[idx].instrument[1])
          ELSE <<>>>>]

HOIWidget(sample) ==
    [scene |-> HOIScene(sample),
     entity_table |-> _create_entity_table(sample.entities),
     action_table |-> _create_action_table(sample.actions)]

\* The overlay built by on_doubleClicked: the HOISlider of a sample, whose
\* signal handlers hold the index it was opened at.
HOISlider(sample, index) ==
    [kind |-> "overlay", index |-> index, hoi_widget |-> HOIWidget(sample)]

TableView == [kind |-> "table"]

\* math.ceil(len(self.samples) / 5)
rowCount(samples) == (Len(samples) + 4) \div 5

columnCount == 5

\* A QModelIndex of the table model; the invalid index has row and column -1.
Invalid == [valid |-> FALSE, row |-> -1, column |-> -1]

hasIndex(samples, row, column) ==
    /\ 0 <= row /\ row < rowCount(samples)
    /\ 0 <= column /\ column < columnCount

ModelIndex(samples, row, column) ==
    IF hasIndex(samples, row, column)
    THEN [valid |-> TRUE, row |-> row, column |-> column]
    ELSE Invalid

siblingAtColumn(samples, index, column) ==
    IF index.valid THEN ModelIndex(samples, index.row, column) ELSE Invalid

siblingAtRow(samples, index, row) ==
    IF index.valid THEN ModelIndex(samples, row, index.column) ELSE Invalid

\* list[i] of Python: a negative i counts from the end.
ListGet(list, i) ==
    IF 0 <= i /\ i < Len(list)
    THEN Return(list[i + 1])
    ELSE IF -Len(list) <= i /\ i < 0
         THEN Return(list[Len(list) + i + 1])
         ELSE Raise("IndexError")

\* The positions (from 0) at which the stack holds the widget.
IndexOf(stack, widget) == {i \in 0..(Len(stack) - 1) : stack[i + 1] = widget}

\* QStackedWidget.removeWidget: a widget the stack lacks is left alone; when
\* the current widget goes, its successor (or, for the last one, its
\* predecessor) becomes current.
removeWidget(win, widget) ==
    IF IndexOf(win.stack, widget) = {}
    THEN win
    ELSE LET i == CHOOSE j \in IndexOf(win.stack, widget) :
                      \A k \in IndexOf(win.stack, widget) : j <= k
             rest == [k \in 1..(Len(win.stack) - 1) |->
                         IF k <= i THEN win.stack[k] ELSE win.stack[k + 1]]
         IN  [win EXCEPT
                !.stack = rest,
                !.current = IF i = win.current
                            THEN (IF i = Len(rest) THEN i - 1 ELSE i)
                            ELSE IF i < win.current THEN win.current - 1
                                                    ELSE win.current]

\* QStackedWidget.insertWidget.
insertWidget(win, index, widget) ==
    LET i == IF index < 0 \/ index > Len(win.stack) THEN Len(win.stack) ELSE index
    IN  [win EXCEPT
           !.stack = SubSeq(win.stack, 1, i) \o <<widget>>
                         \o SubSeq(win.stack, i + 1, Len(win.stack)),
           !.current = IF win.current = -1 THEN i
                       ELSE IF i <= win.current THEN win.current + 1
                                                ELSE win.current]

setCurrentIndex(win, index) ==
    IF 0 <= index /\ index < Len(win.stack)
    THEN [win EXCEPT !.current = index]
    ELSE win

\* MainWindow.__init__
MainWindow(samples) ==
    [samples |-> samples, stack |-> <<TableView>>, current |-> 0, selected |-> <<>>]

\* The slot without its two early returns.
on_doubleClicked_unguarded(win, index) ==
    LET cleared == IF Len(win.stack) = 2
                   THEN removeWidget(win, win.stack[2])
                   ELSE win
        item == ListGet(win.samples, index.row * 5 + index.column)
    IN  IF IsExc(item)
        THEN [window |-> cleared, out |-> item]
        ELSE [window |-> setCurrentIndex(
                             insertWidget(cleared, 1, HOISlider(item.val[2], index)), 1),
              out |-> Return(None)]

\* MainWindow.on_doubleClicked: the window it leaves and how it ended.
on_doubleClicked(win, index) ==
    IF ~index.valid
    THEN [window |-> win, out |-> Return(None)]
    ELSE IF index.row * 5 + index.column >= Len(win.samples)
    THEN [window |-> win, out |-> Return(None)]
    ELSE LET cleared == IF Len(win.stack) = 2
                        THEN removeWidget(win, win.stack[2])
                        ELSE win
             item == ListGet(win.samples, index.row * 5 + index.column)
         IN  IF IsExc(item)
             THEN [window |-> cleared, out |-> item]
             ELSE [window |-> setCurrentIndex(
                                  insertWidget(cleared, 1,
                                               HOISlider(item.val[2], index)), 1),
                   out |-> Return(None)]

----------------------------------------------------------------------------
(* The viewer scenario: the user clicks and presses keys in the MainWindow *)

\* The k-th sample of the list handed to the window: three entities, and
\* one action whose roles change with k.
ViewerActions(k) ==
    CASE k % 4 = 0 -> <<Action("hold", 0, None, None)>>
      [] k % 4 = 1 -> <<Action("kick", 1, Some(0), None)>>
      [] k % 4 = 2 -> <<Action("hit", 0, Some(1), Some(2))>>
      [] k % 4 = 3 -> <<Action("hit", 1, Some(2), Some(0))>>

ViewerSample(k) ==
    Sample(<<Root, "images", "train", str(k)>>,
           <<Entity(BoundingBox(<<0, 0, One \div 2, One>>, "XYXY", TRUE), "person"),
             Entity(BoundingBox(<<One \div 4, One \div 2, One, One>>, "XYXY", TRUE),
                    "person"),
             Entity(BoundingBox(<<One \div 2, 0, One, One \div 4>>, "XYXY", TRUE),
                    "ball")>>,
           ViewerActions(k),
           <<"train">>)

ViewerSamples(n) == [k \in 1..n |-> <<str(k), ViewerSample(k)>>]

InitViewer ==
    \E n \in 0..MaxSamples :
        /\ scenario = "viewer"
        /\ text = <<>>
        /\ heap = <<>>
        /\ disk = NoDisk
        /\ dataset = NoDataset
        /\ window = MainWindow(ViewerSamples(n))
        /\ call = NoCall
        /\ ret = Return(0)

Viewing == scenario = "viewer"

\* The indexes the table view has: every cell of every row.
ViewIndexes ==
    IF Viewing
    THEN {[valid |-> TRUE, row |-> r, column |-> c] :
             r \in 0..(rowCount(window.samples) - 1), c \in 0..(columnCount - 1)}
    ELSE {}

\* A run of on_doubleClicked started by the event op.
Slot(op, index) ==
    LET r == on_doubleClicked(window, index)
    IN  /\ window' = r.window
        /\ ret' = r.out
        /\ call' = [op |-> op, self |-> 0, arg |-> index]
        /\ UNCHANGED <<scenario, text, heap, disk, dataset>>

\* The doubleClicked signal of the table view.
DoubleClick ==
    /\ Viewing
    /\ \E index \in ViewIndexes \cup {Invalid} : Slot("doubleClicked", index)

\* The user selects a cell of the table.
Select ==
    /\ Viewing
    /\ \E index \in ViewIndexes :
          /\ window' = [window EXCEPT !.selected = <<index>>]
          /\ call' = [op |-> "select", self |-> 0, arg |-> index]
          /\ ret' = Return(None)
          /\ UNCHANGED <<scenario, text, heap, disk, dataset>>

\* MainWindow.keyReleaseEvent with Enter or Return.
EnterKey ==
    /\ Viewing
    /\ IF window.selected = <<>>
       THEN /\ call' = [op |-> "enter", self |-> 0, arg |-> Invalid]
            /\ ret' = Return(None)
            /\ UNCHANGED <<scenario, window, text, heap, disk, dataset>>
       ELSE Slot("enter", window.selected[1])

\* The overlay that has the keyboard: the one the stack shows.
Shown == Viewing /\ Len(window.stack) = 2 /\ window.stack[2].kind = "overlay"

\* HOISlider.keyReleaseEvent with an arrow key: the signal runs the
\* handler connected to it, with the sibling of the overlay's index.
ArrowKey ==
    /\ Shown
    /\ LET index == window.stack[2].index
       IN  \/ Slot("left", siblingAtColumn(window.samples, index, index.column - 1))
           \/ Slot("right", siblingAtColumn(window.samples, index, index.column + 1))
           \/ Slot("up", siblingAtRow(window.samples, index, index.row - 1))
           \/ Slot("down", siblingAtRow(window.samples, index, index.row + 1))

\* HOISlider.keyReleaseEvent with Escape: close removes the overlay.
EscapeKey ==
    /\ Shown
    /\ window' = removeWidget(window, window.stack[2])
    /\ call' = [op |-> "close", self |-> 0, arg |-> Invalid]
    /\ ret' = Return(None)
    /\ UNCHANGED <<scenario, text, heap, disk, dataset>>

----------------------------------------------------------------------------

Init == InitGeometry \/ InitParser \/ InitLoader \/ InitViewer

Next ==
    \/ Construct
    \/ Normalize
    \/ Denormalize
    \/ ToXYXY
    \/ ToXYWH
    \/ ToCXCYWH
    \/ Convert
    \/ FromStr
    \/ Load
    \/ Len_
    \/ Iter
    \/ GetItem
    \/ DoubleClick
    \/ Select
    \/ EnterKey
    \/ ArrowKey
    \/ EscapeKey

Spec == Init /\ [][Next]_vars

----------------------------------------------------------------------------
(* Properties of the bounding-box geometry *)

Geometry == scenario = "geometry"

Boxes == IF Geometry THEN 1..Len(heap) ELSE {}

\* The box the heap got last.  The heap only grows, so every box the
\* client ever holds is the latest one in some reachable state.
Latest == IF Geometry THEN {Len(heap)} ELSE {}

\* The last call was op on an existing box and returned an object.
Called(ops) == Geometry /\ call.op \in ops /\ call.self > 0 /\ ~IsExc(ret)

Receiver == heap[call.self]

Result == heap[ret.val]

\* The other coordinate of the axis of coordinate k: x with w or xmax,
\* y with h or ymax.
Partner(k) == IF k <= 2 THEN k + 2 ELSE k - 2

AxisMax(c, k) == Max(Abs(c[k]), Abs(c[Partner(k)]))

\* |a - b| <= ulps * 2^(1 - Precision) * scale + slack smallest subnormals
Within(a, b, ulps, scale, slack) ==
    Abs(a - b) * Radix <= 2 * ulps * scale + slack * Radix

RoundTrip(b, f) == convert(convert(b, f).box, b.format).box

\* C1 as stated: b.convert(f).convert(b.format) has the format, the
\* normalized flag and exactly the four coordinates of b.
C1_RoundTripExact ==
    /\ Called({"convert"})
    /\ Len(heap) = 3
    /\ call.self = 2
    /\ ret = Return(3)
    /\ heap[2] = convert(heap[1], heap[2].format).box
    /\ call.arg = heap[1].format
    => heap[3] = heap[1]

\* C1 amended: b.convert(f).convert(b.format) has the format and the
\* normalized flag of b, and each coordinate is within rounding error of
\* b's: 3 units in the last place of the larger coordinate of its axis,
\* plus one smallest subnormal.
C1_RoundTripClose ==
    \A i \in Latest, f \in Formats :
        LET b == heap[i]
            r == RoundTrip(b, f)
        IN  /\ r.format = b.format
            /\ r.normalized = b.normalized
            /\ Len(r.coordinates) = 4
            /\ \A k \in 1..4 :
                   Within(r.coordinates[k], b.coordinates[k], 3,
                          AxisMax(b.coordinates, k), 1)

\* The client ran b.convert(f).convert(b.format) with f another format, and
\* a coordinate came back changed.
C1_Witness ==
    /\ Geometry
    /\ Len(heap) = 3
    /\ call.op = "convert"
    /\ call.self = 2
    /\ call.arg = heap[1].format
    /\ ret = Return(3)
    /\ heap[2].format # heap[1].format
    /\ heap[2] = convert(heap[1], heap[2].format).box
    /\ heap[3].format = heap[1].format
    /\ heap[3].coordinates # heap[1].coordinates

\* The spec's formulas, evaluated in floating point.
SpecFormula(from, to, c) ==
    CASE from = "XYWH" /\ to = "XYXY" ->
            <<c[1], c[2], FAdd(c[1], c[3]), FAdd(c[2], c[4])>>
      [] from = "CXCYWH" /\ to = "XYXY" ->
            <<FSub(c[1], FDiv(c[3], 2)), FSub(c[2], FDiv(c[4], 2)),
              FAdd(c[1], FDiv(c[3], 2)), FAdd(c[2], FDiv(c[4], 2))>>
      [] from = "XYXY" /\ to = "XYWH" ->
            <<c[1], c[2], FSub(c[3], c[1]), FSub(c[4], c[2])>>
      [] from = "CXCYWH" /\ to = "XYWH" ->
            <<FSub(c[1], FDiv(c[3], 2)), FSub(c[2], FDiv(c[4], 2)), c[3], c[4]>>
      [] from = "XYXY" /\ to = "CXCYWH" ->
            <<FDiv(FAdd(c[1], c[3]), 2), FDiv(FAdd(c[2], c[4]), 2),
              FSub(c[3], c[1]), FSub(c[4], c[2])>>
      [] from = "XYWH" /\ to = "CXCYWH" ->
            <<FAdd(c[1], FDiv(c[3], 2)), FAdd(c[2], FDiv(c[4], 2)), c[3], c[4]>>

\* Twice the value of the spec's formulas over the reals.
SpecFormulaTwice(from, to, c) ==
    CASE from = "XYWH" /\ to = "XYXY" ->
            <<2 * c[1], 2 * c[2], 2 * (c[1] + c[3]), 2 * (c[2] + c[4])>>
      [] from = "CXCYWH" /\ to = "XYXY" ->
            <<2 * c[1] - c[3], 2 * c[2] - c[4], 2 * c[1] + c[3], 2 * c[2] + c[4]>>
      [] from = "XYXY" /\ to = "XYWH" ->
            <<2 * c[1], 2 * c[2], 2 * (c[3] - c[1]), 2 * (c[4] - c[2])>>
      [] from = "CXCYWH" /\ to = "XYWH" ->
            <<2 * c[1] - c[3], 2 * c[2] - c[4], 2 * c[3], 2 * c[4]>>
      [] from = "XYXY" /\ to = "CXCYWH" ->
            <<c[1] + c[3], c[2] + c[4], 2 * (c[3] - c[1]), 2 * (c[4] - c[2])>>
      [] from = "XYWH" /\ to = "CXCYWH" ->
            <<2 * c[1] + c[3], 2 * c[2] + c[4], 2 * c[3], 2 * c[4]>>

\* The format a conversion call asks for.
Target ==
    CASE call.op = "to_xyxy" -> "XYXY"
      [] call.op = "to_xywh" -> "XYWH"
      [] call.op = "to_cxcywh" -> "CXCYWH"
      [] call.op = "convert" -> call.arg

Conversions == {"to_xyxy", "to_xywh", "to_cxcywh", "convert"}

\* C2: a conversion to another format returns a box tagged with the target
\* format whose coordinates are the spec's formula for that pair of
\* formats, evaluated in floating point; each is the formula's real value
\* to within half a unit in the last place plus one smallest subnormal.
C2_ConversionFormulas ==
    Called(Conversions) /\ Receiver.format # Target =>
        LET c == Receiver.coordinates
            exact == SpecFormulaTwice(Receiver.format, Target, c)
        IN  /\ Result.format = Target
            /\ Result.coordinates = SpecFormula(Receiver.format, Target, c)
            /\ \A k \in 1..4 :
                   Abs(2 * Result.coordinates[k] - exact[k]) * Pow2(Precision)
                       <= Abs(exact[k]) + Pow2(Precision + 1)

\* The spec's worked example: XYWH (10, 20, 30, 40) to XYXY (10, 20, 40, 60).
C2_Witness ==
    /\ Called({"to_xyxy"})
    /\ Receiver.format = "XYWH"
    /\ Receiver.coordinates = <<Px(10), Px(20), Px(30), Px(40)>>
    /\ Result.format = "XYXY"
    /\ Result.coordinates = <<Px(10), Px(20), Px(40), Px(60)>>

NormDenorm(b, size) == denormalize(normalize(b, size).box, size).box

\* C3 as stated: b.normalize(size).denormalize(size) equals b for every
\* box b that is not normalized.
C3_InverseExact ==
    /\ Called({"denormalize"})
    /\ Len(heap) = 3
    /\ call.self = 2
    /\ ret = Return(3)
    /\ ~heap[1].normalized
    /\ heap[2] = normalize(heap[1], call.arg).box
    => heap[3] = heap[1]

\* C3 amended: b.normalize(size).denormalize(size) has the format of b, is
\* not normalized, and each coordinate is within rounding error of b's: 2
\* units in its last place, plus as many smallest subnormals as the image
\* dimension it was divided by.
C3_InverseClose ==
    \A i \in Latest, size \in Sizes :
        ~heap[i].normalized =>
            LET b == heap[i]
                r == NormDenorm(b, size)
            IN  /\ r.format = b.format
                /\ r.normalized = FALSE
                /\ Len(r.coordinates) = 4
                /\ \A k \in 1..4 :
                       Within(r.coordinates[k], b.coordinates[k], 2,
                              Abs(b.coordinates[k]),
                              size[IF k \in {1, 3} THEN 1 ELSE 2])

\* The client ran b.normalize(size).denormalize(size) on a box that is not
\* normalized, and a coordinate came back changed.
C3_Witness ==
    /\ Geometry
    /\ Len(heap) = 3
    /\ call.op = "denormalize"
    /\ call.self = 2
    /\ ret = Return(3)
    /\ ~heap[1].normalized
    /\ heap[2] = normalize(heap[1], call.arg).box
    /\ heap[3].format = heap[1].format
    /\ ~heap[3].normalized
    /\ heap[3].coordinates # heap[1].coordinates

\* C4: normalize on a normalized box, denormalize on a box that is not
\* normalized, and a conversion to the format the box has, return the
\* receiver itself; hence normalize after normalize and to_xyxy after
\* to_xyxy give what the first call gave.
C4_TargetStateReturnsSelf ==
    /\ Called({"normalize"}) /\ Receiver.normalized => ret = Return(call.self)
    /\ Called({"denormalize"}) /\ ~Receiver.normalized => ret = Return(call.self)
    /\ Called(Conversions) /\ Receiver.format = Target => ret = Return(call.self)
    /\ \A i \in Latest :
          /\ to_xyxy(to_xyxy(heap[i]).box) = Self(to_xyxy(heap[i]).box)
          /\ \A size \in Sizes :
                normalize(normalize(heap[i], size).box, size)
                    = Self(normalize(heap[i], size).box)

\* The client ran b.normalize(size).normalize(size) on a box that is not
\* normalized: the second call returned the object the first one built.
C4_Witness ==
    /\ Called({"normalize"})
    /\ Len(heap) = 2
    /\ ~heap[1].normalized
    /\ heap[2] = normalize(heap[1], call.arg).box
    /\ call.self = 2
    /\ ret = Return(2)

\* A step of the geometry scenario leaves every existing object as it was.
ObjectsKept == \A i \in 1..Len(heap) : Len(heap') >= i /\ heap'[i] = heap[i]

\* C5: a conversion keeps the normalized flag, normalize and denormalize
\* keep the format tag, and no call changes its receiver (or any other
\* existing box).
C5_IndependentAxes ==
    /\ [](Called(Conversions) => Result.normalized = Receiver.normalized)
    /\ [](Called({"normalize", "denormalize"}) => Result.format = Receiver.format)
    /\ [][Geometry => ObjectsKept]_vars

\* A conversion built a new box from a normalized one, and normalize built
\* a new box in a format other than XYXY.
C5_Witness ==
    /\ Called(Conversions \cup {"denormalize"})
    /\ ret.val # call.self
    /\ Receiver.normalized
    /\ Receiver.format # "XYXY"
    /\ Len(heap) = 3
    /\ heap[2].format # heap[1].format
    /\ heap[2].normalized

----------------------------------------------------------------------------
(* Properties of the format parser and of the constructor *)

Parsed == scenario = "parser" /\ call.op = "from_str"

LowerChar(ch) ==
    IF \E k \in 1..Len(UpperChars) : UpperChars[k] = ch
    THEN LowerChars[CHOOSE k \in 1..Len(UpperChars) : UpperChars[k] = ch]
    ELSE ch

\* s is whitespace, then the value of member m in some casing, then
\* whitespace.
Spells(s, m) ==
    \E i \in 0..Len(s) :
        LET n == Len(MemberValue[m])
        IN  /\ i + n <= Len(s)
            /\ \A k \in 1..i : s[k] \in Whitespace
            /\ \A k \in 1..n : LowerChar(s[i + k]) = MemberValue[m][k]
            /\ \A k \in (i + n + 1)..Len(s) : s[k] \in Whitespace

\* C6: from_str returns the member whose value the string spells, in any
\* casing and with any whitespace around it, and raises for every other
\* string.
C6_FromStr ==
    Parsed =>
        /\ \A m \in Formats : Spells(call.arg, m) => ret = Return(m)
        /\ (\A m \in Formats : ~Spells(call.arg, m)) => ret = Raise("KeyError")

\* A mixed-case name with whitespace on both sides was parsed.
C6_Witness ==
    /\ Parsed
    /\ Len(call.arg) = 8
    /\ call.arg[1] \in Whitespace
    /\ call.arg[8] \in Whitespace
    /\ call.arg[2] = "c"
    /\ call.arg[3] = "X"
    /\ ret = Return("CXCYWH")

\* The bounding boxes held by the samples of the loaded dataset.
DatasetBoxes ==
    IF scenario = "loader" /\ dataset # NoDataset
    THEN UNION {{dataset._samples[k][2].entities[e].bbox :
                    e \in 1..Len(dataset._samples[k][2].entities)}
                : k \in 1..Len(dataset._samples)}
    ELSE {}

\* C7: every box that exists, in the heap or in a loaded dataset, has
\* exactly 4 coordinates, and a constructor call with another number of
\* coordinates raises and builds no object.
C7_FourCoordinates ==
    /\ \A i \in Boxes : Len(heap[i].coordinates) = 4
    /\ \A b \in DatasetBoxes : Len(b.coordinates) = 4
    /\ Geometry /\ call.op = "BoundingBox" /\ Len(call.arg[1]) # 4 =>
          ret = Raise("ValueError")

\* The client called the constructor with 3 coordinates: it raised, and the
\* heap holds only the box built before.
C7_Witness ==
    /\ Geometry
    /\ call.op = "BoundingBox"
    /\ Len(call.arg[1]) = 3
    /\ ret = Raise("ValueError")
    /\ Len(heap) = 1

----------------------------------------------------------------------------
(* Properties of the loader *)

Loading == scenario = "loader" /\ call.op = "H2ODataset"

\* The records of a manifest that is a JSON list.
Records(split) ==
    IF scenario = "loader" /\ disk[split].state = "json" /\ disk[split].kind = "list"
    THEN disk[split].value
    ELSE <<>>

\* The positions of the records of that id.
Positions(split, id) ==
    {k \in 1..Len(Records(split)) :
        HasKey(Records(split)[k], "id") /\ Records(split)[k].id = id}

Last(S) == CHOOSE k \in S : \A j \in S : j <= k

\* The sample the spec describes for a record of a split.
ExpectedSample(rec, split) ==
    [image_path |-> <<Root, "images", split, rec.id \o ".jpg">>,
     entities |-> [e \in 1..Len(rec.entities) |->
                     [bbox |-> [coordinates |-> rec.entities[e].bbox,
                                format |-> "XYXY", normalized |-> TRUE],
                      category |-> rec.entities[e].category]],
     actions |-> [a \in 1..Len(rec.actions) |->
                    [verb |-> rec.actions[a].verb,
                     subject |-> rec.actions[a].subject,
                     target |-> rec.actions[a].target,
                     instrument |-> rec.actions[a].instrument]],
     splits |-> <<split>>]

Entries(id) == {k \in 1..Len(dataset._samples) : dataset._samples[k][1] = id}

\* C8: an id that train.json and test.json both hold has exactly one entry
\* in the loaded dataset, and the entry is the sample of the (last) test
\* record of that id: entities, actions, splits and image_path.
C8_LastSplitWins ==
    Loaded =>
        \A id \in Ids :
            Positions("train", id) # {} /\ Positions("test", id) # {} =>
                /\ Cardinality(Entries(id)) = 1
                /\ \A k \in Entries(id) :
                      dataset._samples[k][2] =
                          ExpectedSample(Records("test")[Last(Positions("test", id))],
                                         "test")

\* A dataset was loaded whose two manifests hold the id "0001", train.json
\* first of two records and test.json last of two.
C8_Witness ==
    /\ Loaded
    /\ Loading
    /\ Positions("train", "0001") = {1}
    /\ Positions("test", "0001") = {2}
    /\ Positions("test", "0002") = {1}
    /\ Len(dataset._samples) = 2
    /\ dataset._samples[1][1] = "0001"
    /\ dataset._samples[1][2].splits = <<"test">>
    /\ dataset._samples[1][2].image_path = <<Root, "images", "test", "0001.jpg">>
    /\ dataset._samples[1][2].actions[1].verb = "hold"

\* The split and the position of the record an id was last loaded from.
Source(id) ==
    IF Positions("test", id) # {}
    THEN <<"test", Last(Positions("test", id))>>
    ELSE <<"train", Last(Positions("train", id))>>

\* C9: lookup of an id that a loaded manifest holds returns the sample
\* stored for it, lookup of any other id raises KeyError, and a lookup
\* leaves the dataset as it was.
C9_Lookup ==
    /\ [](Loaded /\ call.op = "__getitem__" =>
            IF Positions("train", call.arg) \cup Positions("test", call.arg) # {}
            THEN /\ ~IsExc(ret)
                 /\ Entries(call.arg) # {}
                 /\ \A k \in Entries(call.arg) : ret.val = dataset._samples[k][2]
                 /\ ret.val = ExpectedSample(Records(Source(call.arg)[1])[Source(call.arg)[2]],
                                             Source(call.arg)[1])
            ELSE ret = Raise("KeyError"))
    /\ [][Loaded => dataset' = dataset]_vars

\* A lookup of an id of the dataset and a lookup of an id it lacks.
C9_Witness ==
    /\ Loaded
    /\ call.op = "__getitem__"
    /\ call.arg = "0003"
    /\ ret = Raise("KeyError")
    /\ Len(dataset._samples) = 2

\* A record with a defect: a member missing from the record, from one of
\* its entities or from one of its actions, or a bbox that has not 4 numbers.
BadRecord(rec) ==
    \/ \E key \in {"id", "entities", "actions"} : ~HasKey(rec, key)
    \/ /\ HasKey(rec, "entities")
       /\ \E e \in 1..Len(rec.entities) :
             \/ \E key \in {"bbox", "category"} : ~HasKey(rec.entities[e], key)
             \/ HasKey(rec.entities[e], "bbox") /\ Len(rec.entities[e].bbox) # 4
    \/ /\ HasKey(rec, "actions")
       /\ \E a \in 1..Len(rec.actions) :
             \E key \in {"verb", "subject", "target", "instrument"} :
                 ~HasKey(rec.actions[a], key)

\* A file of the folder is missing.
MissingFile == \E n \in FileNames : disk[n].state = "missing"

\* A file of the folder is malformed: it holds no JSON, or JSON that is not
\* the list the format asks for.
MalformedFile ==
    \E n \in FileNames :
        \/ disk[n].state = "garbled"
        \/ disk[n].state = "json" /\ disk[n].kind # "list"

MalformedRecord ==
    \E n \in {"train", "test"} :
        \E k \in 1..Len(Records(n)) : BadRecord(Records(n)[k])

\* The defects the loader does stop on: a file that is missing or holds no
\* JSON, a manifest that is a JSON number, a record with a defect.
Unreadable ==
    \/ MissingFile
    \/ \E n \in FileNames : disk[n].state = "garbled"
    \/ \E n \in {"train", "test"} : disk[n].state = "json" /\ disk[n].kind = "number"
    \/ MalformedRecord

\* C10 as stated: when a file is missing or malformed, or a record is
\* malformed, the construction raises and leaves no dataset object.
C10_AllOrNothing ==
    Loading /\ (MissingFile \/ MalformedFile \/ MalformedRecord) =>
        IsExc(ret) /\ dataset = NoDataset

\* categories.json holds a JSON object or a number where the list of names
\* belongs, the other three files are as the format asks, and the
\* construction returned a dataset object.
C10_Witness ==
    /\ Loading
    /\ disk.categories.state = "json"
    /\ disk.categories.kind # "list"
    /\ \A n \in FileNames \ {"categories"} :
          disk[n].state = "json" /\ disk[n].kind = "list"
    /\ ~MalformedRecord
    /\ ~IsExc(ret)
    /\ dataset = ret.val
    /\ dataset._categories = disk.categories.value

\* What the loader does: it raises and leaves no dataset object exactly
\* when a file is missing or holds no JSON, a manifest is a JSON number or a
\* record has a defect; a dataset object that exists holds an entry for
\* every record of both manifests.
C10_UnreadableAborts ==
    /\ Loading /\ Unreadable => IsExc(ret) /\ dataset = NoDataset
    /\ Loading /\ ~Unreadable => ~IsExc(ret) /\ dataset = ret.val
    /\ Loaded =>
          /\ ~Unreadable
          /\ \A n \in {"train", "test"} :
                \A k \in 1..Len(Records(n)) : Entries(Records(n)[k].id) # {}

\* The load failed on the last record of test.json, after two records of
\* train.json and one of test.json had been read.
C10_AbortWitness ==
    /\ Loading
    /\ Len(Records("train")) = 2
    /\ Len(Records("test")) = 2
    /\ ~BadRecord(Records("train")[1])
    /\ ~BadRecord(Records("train")[2])
    /\ ~BadRecord(Records("test")[1])
    /\ BadRecord(Records("test")[2])
    /\ ret = Raise("ValueError")

----------------------------------------------------------------------------
(* Properties of the indices of a loaded action *)

\* The samples of the loaded dataset.
DatasetSamples ==
    IF Loaded
    THEN {dataset._samples[k][2] : k \in 1..Len(dataset._samples)}
    ELSE {}

\* The entities an action names: its subject, and its target and
\* instrument when present, role by role.
Roles(action) ==
    <<Some(action.subject), action.target, action.instrument>>

ValidIndices(sample, action) ==
    /\ \A r \in 1..3 :
          Roles(action)[r] # None =>
              Roles(action)[r][1] \in 0..(Len(sample.entities) - 1)
    /\ \A r, q \in 1..3 :
          r # q /\ Roles(action)[r] # None => Roles(action)[r] # Roles(action)[q]

\* C11 as stated: in every sample of a loaded dataset every action's
\* subject, and its target and instrument when present, is an index of an
\* entity of that sample, and the roles of an action are distinct entities.
C11_IndicesValid ==
    \A sample \in DatasetSamples :
        \A a \in 1..Len(sample.actions) : ValidIndices(sample, sample.actions[a])

\* A dataset was loaded from a manifest whose only record has one entity
\* and an action with subject 1: the sample holds the action as written.
C11_Witness ==
    /\ Loaded
    /\ Loading
    /\ Len(Records("train")) = 1
    /\ Len(Records("test")) = 0
    /\ Len(Records("train")[1].entities) = 1
    /\ Records("train")[1].actions[1].subject = 1
    /\ Len(dataset._samples) = 1
    /\ Len(dataset._samples[1][2].entities) = 1
    /\ dataset._samples[1][2].actions[1].subject = 1

\* What the loader does with the indices: each action of a loaded sample
\* carries subject, target and instrument exactly as its record gives them.
C11_IndicesAsWritten ==
    Loaded =>
        \A id \in Ids :
            Entries(id) # {} =>
                \A k \in Entries(id) :
                    LET rec == Records(Source(id)[1])[Source(id)[2]]
                        sample == dataset._samples[k][2]
                    IN  /\ Len(sample.actions) = Len(rec.actions)
                        /\ \A a \in 1..Len(rec.actions) :
                              /\ sample.actions[a].subject = rec.actions[a].subject
                              /\ sample.actions[a].target = rec.actions[a].target
                              /\ sample.actions[a].instrument = rec.actions[a].instrument

----------------------------------------------------------------------------
(* Properties of the range of normalized coordinates *)

InUnitRange(b) == \A k \in 1..4 : 0 <= b.coordinates[k] /\ b.coordinates[k] <= One

\* C12 as stated: every box flagged normalized, in the heap or in a loaded
\* dataset, has its four coordinates in [0, 1].
C12_NormalizedInUnitRange ==
    /\ \A i \in Boxes : heap[i].normalized => InUnitRange(heap[i])
    /\ \A b \in DatasetBoxes : b.normalized => InUnitRange(b)

\* A normalized CXCYWH box with its four coordinates in [0, 1] was
\* converted to XYXY: the result is flagged normalized and has a negative
\* coordinate.
C12_Witness ==
    /\ Called({"to_xyxy"})
    /\ Receiver.format = "CXCYWH"
    /\ Receiver.normalized
    /\ InUnitRange(Receiver)
    /\ Result.format = "XYXY"
    /\ Result.normalized
    /\ Result.coordinates[1] < 0

\* The flag is carried, never derived: normalize on pixel coordinates
\* larger than the size it is given, and the loader on a manifest bbox
\* beyond 1, build boxes flagged normalized with a coordinate above 1.
C12_FlagWithoutRange ==
    /\ Called({"normalize"}) /\ ~Receiver.normalized =>
          /\ Result.normalized
          /\ \A k \in 1..4 :
                Receiver.coordinates[k] > Px(call.arg[IF k \in {1, 3} THEN 1 ELSE 2])
                    => Result.coordinates[k] >= One
    /\ \A b \in DatasetBoxes : b.normalized

----------------------------------------------------------------------------
(* Properties of the MainWindow *)

\* The events that run on_doubleClicked.
SlotEvents == {"doubleClicked", "enter", "left", "right", "up", "down"}

\* The cell number of an index.
Cell(index) == index.row * 5 + index.column

\* The stack holds the grid alone, or the grid and the overlay of a sample
\* of the list, opened at that sample's cell.
StackInOrder ==
    /\ Len(window.stack) \in {1, 2}
    /\ window.stack[1] = TableView
    /\ Len(window.stack) = 2 =>
          /\ window.stack[2].kind = "overlay"
          /\ window.stack[2].index.valid
          /\ Cell(window.stack[2].index) \in 0..(Len(window.samples) - 1)
          /\ window.stack[2] =
                HOISlider(window.samples[Cell(window.stack[2].index) + 1][2],
                          window.stack[2].index)

\* C13: after any sequence of double clicks, Enter, arrow keys and Escape
\* the stack holds the grid at position 0 and at most one overlay, no
\* handler fails with IndexError, and a double click or navigation whose
\* index is invalid or whose cell number is len(samples) or more leaves the
\* window, and with it the overlay shown, as it was.
C13_StackAndBounds ==
    /\ [](Viewing => StackInOrder /\ ret # Raise("IndexError"))
    /\ [][Viewing /\ call'.op \in SlotEvents
              /\ (~call'.arg.valid \/ Cell(call'.arg) >= Len(window.samples))
            => window' = window]_vars

\* With 7 samples the overlay of the last one, at row 1 column 1, is shown
\* and the right arrow was pressed: the sibling index at column 2 is valid
\* but its cell number is 7, and the overlay stays.
C13_Witness ==
    /\ Viewing
    /\ Len(window.samples) = 7
    /\ call.op = "right"
    /\ call.arg = [valid |-> TRUE, row |-> 1, column |-> 2]
    /\ Len(window.stack) = 2
    /\ window.stack[2].index = [valid |-> TRUE, row |-> 1, column |-> 1]
    /\ window.current = 1

----------------------------------------------------------------------------
(* Properties of the action table *)

\* The actions of the sample the shown overlay was built from.
ShownActions == window.samples[Cell(window.stack[2].index) + 1][2].actions

ShownTable == window.stack[2].hoi_widget.action_table

\* The text the claim gives the cell of an optional index.
OptionalCell(v) == IF v = None THEN <<>> ELSE str(v[1])

\* C14 as stated: in the action table of the overlay, the Target cell of
\* every action is empty exactly when the action has no target and shows
\* the target index otherwise, and so for the Instrument cell, index 0
\* included.
C14_OptionalCells ==
    Shown =>
        /\ Len(ShownTable) = Len(ShownActions)
        /\ \A a \in 1..Len(ShownActions) :
              /\ ShownTable[a][3] = OptionalCell(ShownActions[a].target)
              /\ ShownTable[a][4] = OptionalCell(ShownActions[a].instrument)
              /\ ShownTable[a][3] = <<>> <=> ShownActions[a].target = None
              /\ ShownTable[a][4] = <<>> <=> ShownActions[a].instrument = None

\* The overlay of a sample whose action has target 0 is shown: the Subject
\* cell reads "1" and the Target cell is empty.
C14_Witness ==
    /\ Shown
    /\ Len(ShownActions) = 1
    /\ ShownActions[1].subject = 1
    /\ ShownActions[1].target = Some(0)
    /\ ShownTable[1][1] = <<"1">>
    /\ ShownTable[1][3] = <<>>

\* What the table does show: the index for a target or instrument of 1 or
\* more, and an empty cell for None and for index 0.
C14_ZeroShownEmpty ==
    Shown =>
        \A a \in 1..Len(ShownActions) :
            /\ ShownTable[a][1] = str(ShownActions[a].subject)
            /\ ShownTable[a][2] = ShownActions[a].verb
            /\ \A c \in {3, 4} :
                  LET v == IF c = 3 THEN ShownActions[a].target
                                    ELSE ShownActions[a].instrument
                  IN  ShownTable[a][c] =
                          IF v = None \/ v = Some(0) THEN <<>> ELSE str(v[1])

====
